---- MODULE Spec2Model ----
(***************************************************************************)
(* Model of the Checkly Test Manager (class TestManager).                  *)
(*                                                                         *)
(* Two parts of the program are modelled:                                  *)
(*   - the patching of checkly.config.ts (modifyChecklyConfig,             *)
(*     removeEmailChannel, setupEmailChannel, updateChecklyConfig) and of  *)
(*     playwright.config.ts (updatePlaywrightConfig);                      *)
(*   - the test-folder state and the folder synchronisation                *)
(*     (setTestFolder, removeTestFolder, syncOriginalFolder).              *)
(*                                                                         *)
(* A configuration file is a sequence of lexical tokens.  A token is a     *)
(* piece of text that no pattern of the program can match a part of; the   *)
(* tokens the patterns look at ("checks", ":", "{", "}", white space, the   *)
(* words EmailAlertChannel and alertChannels, quotes) are tokens of their  *)
(* own, so that the regular expressions of the source are computed on the  *)
(* token sequence exactly as they are on the text.                         *)
(***************************************************************************)
EXTENDS Integers, Sequences, FiniteSets, TLC

VARIABLES
    configExists,    \* fs.existsSync(configPath)
    configContent,   \* text of checkly.config.ts (empty when it is absent)
    emailFile,       \* the email stored in email.json, or NoEmail
    playwrightExists,  \* fs.existsSync(playwrightConfigPath)
    playwrightContent, \* text of playwright.config.ts
    doc0,            \* history: checkly.config.ts at start-up
    prevContent,     \* history: checkly.config.ts before the last operation
    prev2Content,    \* history: checkly.config.ts before the operation before
    lastOp,          \* history: the last operation that ran
    prevOp,          \* history: the operation before it
    outcome,         \* history: what the last operation reported
    pc,              \* where the program stands: a step of init() or the menu
    testFolder,      \* this.testFolder, Null when unset
    originalFolderPath, \* this.originalFolderPath, Null when unset
    savedExists,     \* fs.existsSync(savedFolderPath)
    savedFolder,     \* the record in savedFolder.json
    origin,          \* the origin directory: path -> mtime (Absent: no entry)
    mirror,          \* the test folder in the project root: path -> mtime
    clock,           \* the time of the last file-system change
    copied,          \* history: the files the last copySync wrote
    failedAt,        \* history: the file whose copy threw in the last copySync
    mirrorBefore,    \* history: the mirror before the last copySync
    mirror0,         \* history: the mirror at start-up
    events           \* history: the passes and the changes of origin so far,
                     \* kept while they are two passes, a save, a pass

docVars == <<configExists, configContent, emailFile, playwrightExists,
             playwrightContent, doc0, prevContent, prev2Content,
             lastOp, prevOp, outcome>>

\* the files the folder handlers never write
docFiles == <<configExists, configContent, emailFile, playwrightExists,
              playwrightContent>>

folderVars == <<pc, testFolder, originalFolderPath, savedExists, savedFolder>>

treeVars == <<origin, mirror, clock, copied, failedAt, mirrorBefore, mirror0,
              events>>

vars == <<docVars, folderVars, treeVars>>

NoEmail == "NoEmail"

----------------------------------------------------------------------------
(* Text as token sequences *)

\* \s of the regular expressions.  "sp" is one space, "nl" a line break,
\* "sp4" and "sp6" the runs of four and of six spaces that indent the lines
\* of the template literal emailChannel; a literal space of a pattern
\* matches "sp" alone
IsWs(t) == t \in {"sp", "nl", "sp4", "sp6"}

\* String.prototype.includes for a one-token word
Includes(s, w) == \E i \in 1..Len(s) : s[i] = w

\* s starts, at index i, with the literal token sequence lit
StartsAt(s, i, lit) ==
    /\ i >= 1
    /\ i + Len(lit) - 1 <= Len(s)
    /\ \A k \in 1..Len(lit) : s[i + k - 1] = lit[k]

\* greedy \s* from index i: the index of the first token that is not white
\* space (Len(s) + 1 when there is none)
RECURSIVE SkipWs(_, _)
SkipWs(s, i) ==
    IF i <= Len(s) /\ IsWs(s[i]) THEN SkipWs(s, i + 1) ELSE i

\* the first index >= i at which token t stands, 0 when there is none
RECURSIVE IndexFrom(_, _, _)
IndexFrom(s, t, i) ==
    IF i > Len(s) THEN 0
    ELSE IF s[i] = t THEN i
    ELSE IndexFrom(s, t, i + 1)

\* the first index >= i at which the literal lit starts, 0 when there is none
RECURSIVE FindLit(_, _, _)
FindLit(s, lit, i) ==
    IF i + Len(lit) - 1 > Len(s) THEN 0
    ELSE IF StartsAt(s, i, lit) THEN i
    ELSE FindLit(s, lit, i + 1)

----------------------------------------------------------------------------
(* The alert-channel block and the patterns of modifyChecklyConfig and     *)
(* removeEmailChannel                                                      *)

Emails == {"a@b.co", "x@y.com"}

\* playwright.config.ts as `npm init playwright` writes its testDir field
DefaultPlaywright == <<"testDir", ":", "sp", "'", "./tests", "'", ",", "nl">>

\* import { EmailAlertChannel } from 'checkly/constructs';
ImportLine ==
    <<"import", "sp", "{", "sp", "EmailAlertChannel", "sp", "}", "sp",
      "from", "sp", "'checkly/constructs';">>

\* alertChannels: [emailChannel],
RefLit == <<"alertChannels", ":", "sp", "[emailChannel],">>

\* the template literal emailChannel of modifyChecklyConfig
emailChannel(email) ==
    <<"nl">> \o <<"sp4">> \o ImportLine \o
    <<"nl">> \o <<"sp4">> \o
    <<"nl">> \o <<"sp4">> \o
        <<"const emailChannel = new", "sp", "EmailAlertChannel",
          "('email-channel-1',", "sp", "{">> \o
    <<"nl">> \o <<"sp6">> \o <<"address:", "sp", "'", email, "',", "sp">> \o
    <<"nl">> \o <<"sp6">> \o <<"sendFailure: true,">> \o
    <<"nl">> \o <<"sp6">> \o <<"sendRecovery: true,">> \o
    <<"nl">> \o <<"sp6">> \o <<"sendDegraded: false,">> \o
    <<"nl">> \o <<"sp4">> \o <<"}", ");">> \o
    <<"nl">> \o <<"sp4">>

\* checks\s*:\s*\{ tried at index i: the index of its "{", 0 when it does
\* not match there
ChecksHead(s, i) ==
    IF i > Len(s) \/ s[i] # "checks" THEN 0
    ELSE LET j == SkipWs(s, i + 1) IN
         IF j > Len(s) \/ s[j] # ":" THEN 0
         ELSE LET k == SkipWs(s, j + 1) IN
              IF k > Len(s) \/ s[k] # "{" THEN 0 ELSE k

NoMatch == [start |-> 0, brace |-> 0, end |-> 0]

\* checksRegex = /checks\s*:\s*\{[\s\S]*?\}/ : the leftmost match from index
\* i on; the lazy [\s\S]*? ends the match at the first "}" after the "{"
RECURSIVE checksRegex(_, _)
checksRegex(s, i) ==
    IF i > Len(s) THEN NoMatch
    ELSE LET b == ChecksHead(s, i)
             e == IF b = 0 THEN 0 ELSE IndexFrom(s, "}", b + 1)
         IN IF e # 0 THEN [start |-> i, brace |-> b, end |-> e]
            ELSE checksRegex(s, i + 1)

\* ReplaceMatch without its test of match.includes('alertChannels')
ReplaceMatchUnguarded(m, b) ==
    SubSeq(m, 1, b - 1)
    \o <<"{", "sp">> \o RefLit \o <<"nl">>
    \o SubSeq(m, SkipWs(m, b + 1), Len(m))

\* the replacer function given to configContent.replace(checksRegex, ...):
\* match.replace(/{\s*/, "{ alertChannels: [emailChannel],\n") unless the
\* match includes 'alertChannels'.  m is the match, b the index in m of its
\* first "{"
ReplaceMatch(m, b) ==
    IF ~Includes(m, "alertChannels")
    THEN SubSeq(m, 1, b - 1)
         \o <<"{", "sp">> \o RefLit \o <<"nl">>
         \o SubSeq(m, SkipWs(m, b + 1), Len(m))
    ELSE m

\* a try block that writes its text back when no checks object is found
ModifyTextWritesBack(content, email) ==
    LET c1 == IF ~Includes(content, "EmailAlertChannel")
              THEN emailChannel(email) \o <<"nl">> \o content
              ELSE content
        m == checksRegex(c1, 1)
    IN IF m.end # 0
       THEN [written |-> TRUE,
             text |-> SubSeq(c1, 1, m.start - 1)
                      \o ReplaceMatch(SubSeq(c1, m.start, m.end),
                                      m.brace - m.start + 1)
                      \o SubSeq(c1, m.end + 1, Len(c1))]
       ELSE [written |-> FALSE, text |-> c1]

\* the try block of modifyChecklyConfig on the text it read: the text it
\* writes, or no write at all when no checks object is found
ModifyText(content, email) ==
    LET c1 == IF ~Includes(content, "EmailAlertChannel")
              THEN emailChannel(email) \o <<"nl">> \o content
              ELSE content
        m == checksRegex(c1, 1)
    IN IF m.end # 0
       THEN [written |-> TRUE,
             text |-> SubSeq(c1, 1, m.start - 1)
                      \o ReplaceMatch(SubSeq(c1, m.start, m.end),
                                      m.brace - m.start + 1)
                      \o SubSeq(c1, m.end + 1, Len(c1))]
       ELSE [written |-> FALSE, text |-> content]

\* replace(/import { EmailAlertChannel } from 'checkly\/constructs';[\s\S]*?
\*          alertChannels: \[emailChannel\],/g, '')
RECURSIVE RemoveDefinition(_)
RemoveDefinition(s) ==
    LET i == FindLit(s, ImportLine, 1)
        j == IF i = 0 THEN 0 ELSE FindLit(s, RefLit, i + Len(ImportLine))
    IN IF j = 0 THEN s
       ELSE SubSeq(s, 1, i - 1)
            \o RemoveDefinition(SubSeq(s, j + Len(RefLit), Len(s)))

\* replace(/alertChannels: \[emailChannel\],\s*/g, '')
RECURSIVE RemoveEntry(_)
RemoveEntry(s) ==
    LET j == FindLit(s, RefLit, 1) IN
    IF j = 0 THEN s
    ELSE SubSeq(s, 1, j - 1)
         \o RemoveEntry(SubSeq(s, SkipWs(s, j + Len(RefLit)), Len(s)))

\* the try block of removeEmailChannel on the text it read
RemoveText(content) == RemoveEntry(RemoveDefinition(content))

----------------------------------------------------------------------------
(* The handlers that patch checkly.config.ts for the alert channel *)

\* history kept for the properties; no handler reads it.  op is "upsert"
\* when the try block of modifyChecklyConfig ran, "remove" when that of
\* removeEmailChannel ran, "skip" when the handler returned before it
Record(op, result) ==
    /\ prev2Content' = prevContent
    /\ prevContent' = configContent
    /\ prevOp' = lastOp
    /\ lastOp' = op
    /\ outcome' = result
    /\ UNCHANGED <<doc0, configExists, playwrightExists>>

\* modifyChecklyConfig(), called from init() and from setupEmailChannel()
ModifyChecklyConfig ==
    IF ~configExists
    THEN /\ UNCHANGED <<configContent, emailFile>>
         /\ Record("skip", "noConfig")
    ELSE IF emailFile = NoEmail
    THEN /\ UNCHANGED <<configContent, emailFile>>
         /\ Record("skip", "noEmail")
    ELSE LET r == ModifyText(configContent, emailFile) IN
         /\ configContent' = r.text
         /\ UNCHANGED emailFile
         /\ Record("upsert", IF r.written THEN "added" ELSE "noChecks")

\* setupEmailChannel(); response is what the prompt returns (NoEmail when
\* the user gives none)
SetupEmailChannel(response) ==
    IF ~configExists
    THEN /\ UNCHANGED <<configContent, emailFile>>
         /\ Record("skip", "noConfig")
    ELSE IF emailFile # NoEmail
    THEN /\ UNCHANGED <<configContent, emailFile>>
         /\ Record("skip", "cached")
    ELSE IF response = NoEmail
    THEN /\ UNCHANGED <<configContent, emailFile>>
         /\ Record("skip", "noEmail")
    ELSE LET r == ModifyText(configContent, response) IN
         /\ emailFile' = response
         /\ configContent' = r.text
         /\ Record("upsert", IF r.written THEN "added" ELSE "noChecks")

\* removeEmailChannel()
RemoveEmailChannel ==
    IF ~configExists
    THEN /\ UNCHANGED <<configContent, emailFile>>
         /\ Record("skip", "noConfig")
    ELSE /\ emailFile' = NoEmail
         /\ configContent' = RemoveText(configContent)
         /\ Record("remove", "removed")

\* the documents checkly.config.ts starts as: up to MaxFrags pieces of text
MaxFrags == 3

Fragments ==
    { <<"x">>,                               \* any other text
      <<"checks", ":", "sp", "{", "sp">>,    \* checks: {
      <<"{", "x", "}">>,                     \* a nested object
      <<"}">>,
      <<"EmailAlertChannel">>,               \* the word, used elsewhere
      <<"alertChannels">> }                  \* the word, used elsewhere

RECURSIVE Concat(_)
Concat(ss) == IF ss = <<>> THEN <<>> ELSE Head(ss) \o Concat(Tail(ss))

Docs == { Concat(fs) : fs \in UNION { [1..n -> Fragments] : n \in 0..MaxFrags } }


----------------------------------------------------------------------------
(* The path fields: updateChecklyConfig and updatePlaywrightConfig *)

\* folderPath.replace(/\\/g, '/')
Normalize(folderPath) ==
    [i \in 1..Len(folderPath) |->
        IF folderPath[i] = "\\" THEN "/" ELSE folderPath[i]]

\* the end of /key: '.*?'/ tried at index i: the index of the closing quote,
\* 0 when it does not match there ("." matches no line break)
RECURSIVE LazyToQuote(_, _)
LazyToQuote(s, i) ==
    IF i > Len(s) \/ s[i] = "nl" THEN 0
    ELSE IF s[i] = "'" THEN i
    ELSE LazyToQuote(s, i + 1)

\* /key: '.*?'/ : the leftmost match from index i on
RECURSIVE FieldRegex(_, _, _)
FieldRegex(s, key, i) ==
    IF i > Len(s) THEN [start |-> 0, end |-> 0]
    ELSE LET e == IF StartsAt(s, i, <<key, ":", "sp", "'">>)
                  THEN LazyToQuote(s, i + 4) ELSE 0
         IN IF e # 0 THEN [start |-> i, end |-> e]
            ELSE FieldRegex(s, key, i + 1)

\* content.replace(/key: '.*?'/, `key: '${value}'`)
ReplaceField(s, key, value) ==
    LET m == FieldRegex(s, key, 1) IN
    IF m.end = 0 THEN s
    ELSE SubSeq(s, 1, m.start - 1)
         \o <<key, ":", "sp", "'">> \o value \o <<"'">>
         \o SubSeq(s, m.end + 1, Len(s))

\* the two replaces of updateChecklyConfig
UpdateChecklyText(content, folderPath) ==
    ReplaceField(
        ReplaceField(content, "checkMatch",
                     Normalize(folderPath) \o <<"/**/*.check.ts">>),
        "testMatch", Normalize(folderPath) \o <<"/**/*.spec.ts">>)

\* the replace of updatePlaywrightConfig
UpdatePlaywrightText(content, folderPath) ==
    ReplaceField(content, "testDir", Normalize(folderPath))

\* updateChecklyConfig(folderPath): readFileSync throws when the file is
\* absent and the catch logs it; otherwise the text is written back and the
\* update is logged, whether or not a pattern matched
UpdateChecklyConfig(folderPath) ==
    /\ IF ~configExists
       THEN /\ UNCHANGED configContent
            /\ Record("updateChecklyConfig", "error")
       ELSE /\ configContent' = UpdateChecklyText(configContent, folderPath)
            /\ Record("updateChecklyConfig", "updated")
    /\ UNCHANGED <<emailFile, playwrightContent>>

\* updatePlaywrightConfig(folderPath)
UpdatePlaywrightConfig(folderPath) ==
    /\ IF ~playwrightExists
       THEN /\ UNCHANGED playwrightContent
            /\ Record("updatePlaywrightConfig", "error")
       ELSE /\ playwrightContent' =
                   UpdatePlaywrightText(playwrightContent, folderPath)
            /\ Record("updatePlaywrightConfig", "updated")
    /\ UNCHANGED <<emailFile, configContent>>

\* the documents the path fields are updated in: up to MaxFieldFrags pieces
MaxFieldFrags == 3

FieldFragments ==
    { <<"checkMatch", ":", "sp", "'", "**/__checks__/**/*.check.js", "'">>,
      <<"testMatch", ":", "sp", "'", "**/__checks__/**/*.spec.js", "'">>,
      <<"x">>, <<"nl">>, <<"'">> }

FieldDocs ==
    { Concat(fs) :
        fs \in UNION { [1..n -> FieldFragments] : n \in 0..MaxFieldFrags } }

PlaywrightDocs ==
    { DefaultPlaywright, <<"x">>, <<"testDir", ":", "sp", "'", "nl", "'">> }

\* folder paths as path.resolve gives them on POSIX and on Windows
FolderPaths ==
    { <<"/", "proj", "/", "tests">>, <<"C:", "\\", "proj", "\\", "tests">> }



----------------------------------------------------------------------------
(* The folders: the origin directory the user selects and its copy, the    *)
(* test folder, in the project root.  Each is a tree of four entries; an   *)
(* entry maps to its mtime, Absent when it does not exist.                 *)

Null == <<>>
Absent == 0

Paths == {".", "a.spec.ts", "lib", "lib/b.check.ts"}

IsDir(p) == p \in {".", "lib"}

Files == { p \in Paths : ~IsDir(p) }

Parent(p) == IF p = "lib/b.check.ts" THEN "lib" ELSE "."

\* fs.readdirSync(dir) of a tree: the entries of dir that exist, in order
ReadDir(tree, dir) ==
    SelectSeq(IF dir = "." THEN <<"a.spec.ts", "lib">>
              ELSE IF dir = "lib" THEN <<"lib/b.check.ts">>
              ELSE <<>>,
              LAMBDA p : tree[p] # Absent)

\* process.cwd(), the directory the user selects, and path.sep
PathSep == "\\"
CwdPath == <<"C:", PathSep, "proj">>
OriginPath == <<"C:", PathSep, "Users", PathSep, "me", PathSep, "tests">>

\* path.basename
Basename(path) == path[Len(path)]

\* path.resolve(projectRoot, path.basename(currentDir))
ResolveInRoot(currentDir) == CwdPath \o <<PathSep, Basename(currentDir)>>

MirrorPath == ResolveInRoot(OriginPath)

NoRecord == [folder |-> Null, originalFolder |-> Null]

\* the filter given to copySync in syncOriginalFolder:
\* !destData || srcData.mtimeMs > destData.mtimeMs
SyncFilter(src, dest, p) == dest[p] = Absent \/ src[p] > dest[p]

\* the filter of a copySync that is given none
NoFilter(src, dest, p) == TRUE

\* copySync writing entry p of the destination at time now: a new file, or
\* the old one overwritten, has the time of the copy, and so has the
\* directory it stands in
WriteEntry(dest, p, now) ==
    [q \in Paths |-> IF q = p \/ q = Parent(p) THEN now ELSE dest[q]]

\* fs-extra's copySync(src, dest, {overwrite: true, filter}) as a walk over
\* the entries still to visit (todo, the first one next).  The filter is asked
\* for every entry, directories and the top one included; an entry it turns
\* down is skipped with all that is below it.  A directory absent from dest
\* is made; a file is copied, and the copy of the file `fail` throws, which
\* ends the walk (dest keeps that file as it was).
\* the filter option of a copySync call, named by the caller
ApplyFilter(filter, src, dest, p) ==
    IF filter = "SyncFilter" THEN SyncFilter(src, dest, p)
    ELSE NoFilter(src, dest, p)

RECURSIVE CopyWalk(_, _, _, _, _, _)
CopyWalk(st, src, todo, now, filter, fail) ==
    IF todo = <<>> \/ st.failedAt # "none" THEN st
    ELSE LET p == Head(todo) IN
         IF ~ApplyFilter(filter, src, st.dest, p)
         THEN CopyWalk(st, src, Tail(todo), now, filter, fail)
         ELSE IF IsDir(p)
         THEN CopyWalk(
                  IF st.dest[p] = Absent
                  THEN [st EXCEPT !.dest = WriteEntry(st.dest, p, now)]
                  ELSE st,
                  src, ReadDir(src, p) \o Tail(todo), now, filter, fail)
         ELSE IF p = fail
         THEN [st EXCEPT !.failedAt = p]
         ELSE CopyWalk(
                  [st EXCEPT !.dest = WriteEntry(st.dest, p, now),
                             !.copied = st.copied \cup {p}],
                  src, Tail(todo), now, filter, fail)

copySync(src, dest, now, filter, fail) ==
    CopyWalk([dest |-> dest, copied |-> {}, failedAt |-> "none"],
             src, <<".">>, now, filter, fail)

\* a pass that also deletes from dest what src no longer has
SyncPassMirroring(src, dest, now, fail) ==
    LET r == copySync(src, dest, now, "SyncFilter", fail) IN
    [r EXCEPT !.dest = [p \in Paths |->
                          IF src[p] = Absent THEN Absent ELSE r.dest[p]]]

\* the copySync call of syncOriginalFolder
SyncPass(src, dest, now, fail) == copySync(src, dest, now, "SyncFilter", fail)

----------------------------------------------------------------------------
(* The handlers of the test folder *)

MaxClock == 5

\* the clock after a copySync that left the mirror as dest: the time of the
\* copy when it wrote anything
Tick(dest) ==
    IF dest = mirror THEN UNCHANGED clock
    ELSE clock < MaxClock /\ clock' = clock + 1

\* history of the folder handlers; no handler reads it
RecordOp(op, result) ==
    /\ lastOp' = op
    /\ outcome' = result
    /\ UNCHANGED <<prevOp, doc0, prevContent, prev2Content>>

\* the log of events with e added, as long as it is a prefix of: a pass, a
\* pass, a save of one file, a pass; any other history is logged as Other
Other == <<[op |-> "other", files |-> {}, failedAt |-> "none"]>>

Track(e) ==
    IF events # Other /\ Len(events) < 4
       /\ e.op = <<"sync", "sync", "touch", "sync">>[Len(events) + 1]
    THEN Append(events, e)
    ELSE Other

\* history of a copySync pass r that started from the mirror as it is now
RecordPass(op, r) ==
    /\ copied' = r.copied
    /\ failedAt' = r.failedAt
    /\ mirrorBefore' = mirror
    /\ events' = Track([op |-> op, files |-> r.copied, failedAt |-> r.failedAt])
    /\ UNCHANGED mirror0

NoPass == UNCHANGED <<copied, failedAt, mirrorBefore, mirror0, events>>

\* setTestFolder(): the prompt loop ends with no selection ("cancel") or
\* with 'Select This Folder' on the origin directory ("select"); fail is the
\* file whose copy throws, "none" when no copy does
SetTestFolderBody(op, selection, fail) ==
    IF selection = "cancel"
    THEN /\ UNCHANGED <<testFolder, originalFolderPath, savedExists,
                        savedFolder, origin, mirror, clock>>
         /\ NoPass
         /\ RecordOp(op, "canceled")
    ELSE /\ originalFolderPath' = OriginPath
         /\ testFolder' = ResolveInRoot(OriginPath)
         /\ LET r == copySync(origin, mirror, clock + 1, "NoFilter", fail) IN
            /\ Tick(r.dest)
            /\ mirror' = r.dest
            /\ RecordPass("bootstrap", r)
            /\ IF r.failedAt # "none"
               THEN /\ UNCHANGED <<savedExists, savedFolder>>
                    /\ RecordOp(op, "copyError")
               ELSE /\ savedExists' = TRUE
                    /\ savedFolder' = [folder |-> testFolder',
                                       originalFolder |-> originalFolderPath']
                    /\ RecordOp(op, "selected")
         /\ UNCHANGED origin

\* ensureTestFolder(), the first step of init() this model follows
EnsureTestFolder(selection, fail) ==
    /\ pc = "ensureTestFolder"
    /\ pc' = "syncOriginalFolder"
    /\ IF savedExists /\ savedFolder.folder = MirrorPath /\ mirror["."] # Absent
       THEN /\ testFolder' = savedFolder.folder
            /\ originalFolderPath' = savedFolder.originalFolder
            /\ UNCHANGED <<savedExists, savedFolder, origin, mirror, clock>>
            /\ NoPass
            /\ RecordOp("ensureTestFolder", "loaded")
       ELSE SetTestFolderBody("ensureTestFolder", selection, fail)

\* setTestFolder() from the menu ('Add New Folder')
SetTestFolder(selection, fail) ==
    /\ pc = "mainMenu"
    /\ UNCHANGED pc
    /\ SetTestFolderBody("setTestFolder", selection, fail)

\* a syncOriginalFolder() that starts its pass whatever the paths are
SyncOriginalFolderUnguarded(fail) ==
    /\ pc = "syncOriginalFolder"
    /\ pc' = "mainMenu"
    /\ UNCHANGED <<testFolder, originalFolderPath, savedExists, savedFolder,
                   origin>>
    /\ LET r == SyncPass(origin, mirror, clock + 1, fail) IN
          /\ Tick(r.dest)
          /\ mirror' = r.dest
          /\ RecordPass("sync", r)
          /\ RecordOp("syncOriginalFolder",
                      IF r.failedAt # "none" THEN "error" ELSE "completed")

\* syncOriginalFolder(), the step of init() after ensureTestFolder()
SyncOriginalFolder(fail) ==
    /\ pc = "syncOriginalFolder"
    /\ pc' = "mainMenu"
    /\ UNCHANGED <<testFolder, originalFolderPath, savedExists, savedFolder,
                   origin>>
    /\ IF originalFolderPath = Null \/ testFolder = Null
       THEN /\ UNCHANGED <<mirror, clock>>
            /\ NoPass
            /\ RecordOp("syncOriginalFolder", "notSet")
       ELSE LET r == SyncPass(origin, mirror, clock + 1, fail) IN
               /\ Tick(r.dest)
               /\ mirror' = r.dest
               /\ RecordPass("sync", r)
               /\ RecordOp("syncOriginalFolder",
                           IF r.failedAt # "none" THEN "error" ELSE "completed")

\* removeTestFolder() from the menu
RemoveTestFolder ==
    /\ pc = "mainMenu"
    /\ UNCHANGED <<pc, originalFolderPath, savedFolder, origin, mirror, clock>>
    /\ NoPass
    /\ IF savedExists
       THEN /\ savedExists' = FALSE
            /\ testFolder' = Null
            /\ RecordOp("removeTestFolder", "removed")
       ELSE /\ UNCHANGED <<savedExists, testFolder>>
            /\ RecordOp("removeTestFolder", "nothingSaved")

\* 'Exit' in the menu, and the program started again: a new TestManager
Restart ==
    /\ pc = "mainMenu"
    /\ pc' = "ensureTestFolder"
    /\ testFolder' = Null
    /\ originalFolderPath' = Null
    /\ UNCHANGED <<savedExists, savedFolder, origin, mirror, clock>>
    /\ NoPass
    /\ RecordOp("restart", "none")

\* the user saves origin file f while the program waits in its menu
TouchOriginFile(f) ==
    /\ pc = "mainMenu"
    /\ origin[f] # Absent
    /\ clock < MaxClock
    /\ clock' = clock + 1
    /\ origin' = [origin EXCEPT ![f] = clock + 1]
    /\ events' = Track([op |-> "touch", files |-> {f}, failedAt |-> "none"])
    /\ UNCHANGED <<pc, testFolder, originalFolderPath, savedExists,
                   savedFolder, mirror, copied, failedAt, mirrorBefore, mirror0>>
    /\ RecordOp("touch", "none")

\* the user deletes origin entry p (with what is below it)
DeleteOriginEntry(p) ==
    /\ pc = "mainMenu"
    /\ p # "."
    /\ origin[p] # Absent
    /\ clock < MaxClock
    /\ clock' = clock + 1
    /\ origin' = [q \in Paths |->
                    IF q = p \/ (q # "." /\ Parent(q) = p) THEN Absent
                    ELSE IF q = Parent(p) THEN clock + 1
                    ELSE origin[q]]
    /\ events' = Track([op |-> "delete", files |-> {p}, failedAt |-> "none"])
    /\ UNCHANGED <<pc, testFolder, originalFolderPath, savedExists,
                   savedFolder, mirror, copied, failedAt, mirrorBefore, mirror0>>
    /\ RecordOp("delete", "none")

----------------------------------------------------------------------------
(* The specifications *)

AllPresent(t) == [p \in Paths |-> t]
AllAbsent == [p \in Paths |-> Absent]

\* the origin directory at start-up: two files written at time 2, or the
\* first of them deleted at that time
InitOrigins ==
    { AllPresent(2), [AllPresent(2) EXCEPT !["a.spec.ts"] = Absent] }

\* the test folder at start-up: none, an empty one older than origin, or
\* the copy an earlier run left, older than origin or as new as the clock
InitMirrors ==
    { AllAbsent, [AllAbsent EXCEPT !["."] = 1], AllPresent(1), AllPresent(2) }

\* the folders while only the configuration files are looked at
FolderIdle ==
    /\ pc = "mainMenu"
    /\ testFolder = Null
    /\ originalFolderPath = Null
    /\ savedExists = FALSE
    /\ savedFolder = NoRecord
    /\ origin = AllPresent(2)
    /\ mirror = AllAbsent
    /\ clock = 2
    /\ copied = {}
    /\ failedAt = "none"
    /\ mirrorBefore = AllAbsent
    /\ mirror0 = AllAbsent
    /\ events = <<>>

\* the program after construction: init() is about to call
\* ensureTestFolder()
Init ==
    /\ pc = "ensureTestFolder"
    /\ testFolder = Null
    /\ originalFolderPath = Null
    /\ savedExists \in BOOLEAN
    /\ savedFolder = IF savedExists
                     THEN [folder |-> MirrorPath, originalFolder |-> OriginPath]
                     ELSE NoRecord
    /\ origin \in InitOrigins
    /\ mirror \in InitMirrors
    /\ clock = 2
    /\ copied = {}
    /\ failedAt = "none"
    /\ mirrorBefore = mirror
    /\ mirror0 = mirror
    /\ events = <<>>
    /\ configExists = TRUE
    /\ configContent = <<>>
    /\ emailFile = NoEmail
    /\ playwrightExists = TRUE
    /\ playwrightContent = DefaultPlaywright
    /\ doc0 = configContent
    /\ prevContent = configContent
    /\ prev2Content = configContent
    /\ lastOp = "start"
    /\ prevOp = "start"
    /\ outcome = "none"

Fails == Files \cup {"none"}

Next ==
    \/ \E selection \in {"cancel", "select"}, fail \in Fails :
           EnsureTestFolder(selection, fail) /\ UNCHANGED docFiles
    \/ \E fail \in Fails : SyncOriginalFolder(fail) /\ UNCHANGED docFiles
    \/ \E selection \in {"cancel", "select"}, fail \in Fails :
           SetTestFolder(selection, fail) /\ UNCHANGED docFiles
    \/ RemoveTestFolder /\ UNCHANGED docFiles
    \/ Restart /\ UNCHANGED docFiles
    \/ \E f \in Files : TouchOriginFile(f) /\ UNCHANGED docFiles
    \/ \E p \in Paths : DeleteOriginEntry(p) /\ UNCHANGED docFiles

Spec == Init /\ [][Next]_vars

InitConfig ==
    /\ configExists \in BOOLEAN
    /\ configContent \in (IF configExists THEN Docs ELSE {<<>>})
    /\ emailFile \in Emails \cup {NoEmail}
    /\ playwrightExists = TRUE
    /\ playwrightContent = DefaultPlaywright
    /\ doc0 = configContent
    /\ prevContent = configContent
    /\ prev2Content = configContent
    /\ lastOp = "start"
    /\ prevOp = "start"
    /\ outcome = "none"
    /\ FolderIdle

NextConfig ==
    \/ ModifyChecklyConfig /\ UNCHANGED <<playwrightContent, folderVars, treeVars>>
    \/ \E response \in Emails \cup {NoEmail} :
           /\ SetupEmailChannel(response)
           /\ UNCHANGED <<playwrightContent, folderVars, treeVars>>
    \/ RemoveEmailChannel /\ UNCHANGED <<playwrightContent, folderVars, treeVars>>

SpecConfig == InitConfig /\ [][NextConfig]_vars

InitFields ==
    /\ configExists \in BOOLEAN
    /\ configContent \in (IF configExists THEN FieldDocs ELSE {<<>>})
    /\ emailFile = NoEmail
    /\ playwrightExists \in BOOLEAN
    /\ playwrightContent \in (IF playwrightExists THEN PlaywrightDocs ELSE {<<>>})
    /\ doc0 = configContent
    /\ prevContent = configContent
    /\ prev2Content = configContent
    /\ lastOp = "start"
    /\ prevOp = "start"
    /\ outcome = "none"
    /\ FolderIdle

NextFields ==
    \/ \E folderPath \in FolderPaths :
           UpdateChecklyConfig(folderPath) /\ UNCHANGED <<folderVars, treeVars>>
    \/ \E folderPath \in FolderPaths :
           UpdatePlaywrightConfig(folderPath) /\ UNCHANGED <<folderVars, treeVars>>

SpecFields == InitFields /\ [][NextFields]_vars

----------------------------------------------------------------------------
(* What the properties of the alert channel speak of *)

\* the document has a checks object literal the program finds
HasChecks(d) == checksRegex(d, 1).end # 0

\* the tokens checksRegex matches in d (empty when there is no match)
ChecksObject(d) ==
    LET m == checksRegex(d, 1) IN
    IF m.end = 0 THEN <<>> ELSE SubSeq(d, m.start, m.end)

DeclLit == <<"const emailChannel = new", "sp", "EmailAlertChannel">>

Occurrences(d, lit) == Cardinality({ i \in 1..Len(d) : StartsAt(d, i, lit) })

\* PRESENT: the document declares emailChannel
Present(d) == Occurrences(d, DeclLit) >= 1

\* the checks object holds an alertChannels list
Referenced(d) == Includes(ChecksObject(d), "alertChannels")

\* no alert-channel block, nor a word of one, in the document
Clean(d) == ~Includes(d, "EmailAlertChannel") /\ ~Includes(d, "alertChannels")

\* zero or one import+declaration block, referenced iff it exists
BlockInvariant(d) ==
    /\ Occurrences(d, DeclLit) <= 1
    /\ Occurrences(d, ImportLine) = Occurrences(d, DeclLit)
    /\ Referenced(d) <=> Present(d)

\* C1: round-trip removal.  An upsert followed by a remove, on a document
\* that has a checks object and no alert-channel block, gives the document
\* back.
C1_RoundTrip ==
    ( /\ prevOp = "upsert" /\ lastOp = "remove"
      /\ Clean(prev2Content) /\ HasChecks(prev2Content) )
    => configContent = prev2Content

\* C3: idempotent upsert.  A second upsert right after an upsert leaves the
\* document as the first one left it (the stored email cannot change between
\* them: setupEmailChannel keeps a cached email).
C3_IdempotentUpsert ==
    (prevOp = "upsert" /\ lastOp = "upsert") => configContent = prevContent

\* two upserts in a row on a clean document whose checks object holds a
\* nested object: the first one added the block and the reference
C3_Witness ==
    /\ prevOp = "upsert" /\ lastOp = "upsert"
    /\ Clean(prev2Content)
    /\ StartsAt(ChecksObject(prev2Content), 1,
                <<"checks", ":", "sp", "{", "sp", "{", "x", "}">>)
    /\ Present(configContent)
    /\ Occurrences(configContent, RefLit) = 1

\* C4: after any upsert or remove on a document that has a checks object
\* (and satisfies the invariant to begin with), there is at most one
\* import+declaration block and the checks object references the channel
\* iff the block exists.
C4_BlockInvariant ==
    ( /\ lastOp \in {"upsert", "remove"}
      /\ HasChecks(doc0) /\ BlockInvariant(doc0) )
    => BlockInvariant(configContent)

\* C10: the lifecycle of a document that starts with a checks object and no
\* alert-channel block: every upsert leaves it PRESENT, every remove leaves
\* it ABSENT, and a remove from ABSENT changes nothing.
C10_Lifecycle ==
    (Clean(doc0) /\ HasChecks(doc0)) =>
        /\ lastOp = "upsert" => Present(configContent)
        /\ lastOp = "remove" => ~Present(configContent)
        /\ (lastOp = "remove" /\ ~Present(prevContent))
               => configContent = prevContent

----------------------------------------------------------------------------
(* What the properties of the path fields speak of *)

HasField(d, key) == FieldRegex(d, key, 1).end # 0

\* the document with the values of its two path fields blanked
OutsideFields(d) == ReplaceField(ReplaceField(d, "checkMatch", <<>>), "testMatch", <<>>)

\* C7: updateChecklyConfig on an existing document.  When the checkMatch or
\* the testMatch anchor is absent it reports a failure, not success, and leaves
\* the document as it was; when both are present the text outside the two
\* values is unchanged.
C7_FailsClosed ==
    (lastOp = "updateChecklyConfig" /\ configExists) =>
        IF HasField(prevContent, "checkMatch") /\ HasField(prevContent, "testMatch")
        THEN OutsideFields(configContent) = OutsideFields(prevContent)
        ELSE outcome # "updated" /\ configContent = prevContent

----------------------------------------------------------------------------
(* What the properties of the folders speak of *)

\* the mirror copy of file f is absent or older than the origin file
Stale(src, dest, f) == dest[f] = Absent \/ src[f] > dest[f]

\* a pass of syncOriginalFolder has just run (to its end, or to an error)
AfterPass == lastOp = "syncOriginalFolder" /\ outcome # "notSet"

\* the files origin holds
OriginFiles == { f \in Files : origin[f] # Absent }

\* the directories above file f are absent from the mirror or older in it
DirsStale(src, dest, f) ==
    /\ Stale(src, dest, ".")
    /\ Parent(f) # "." => Stale(src, dest, Parent(f))

\* the value of the field key of document d
FieldValue(d, key) ==
    LET m == FieldRegex(d, key, 1) IN
    IF m.end = 0 THEN <<>> ELSE SubSeq(d, m.start + 4, m.end - 1)

\* C2: staleness-only copy.  A pass that ran to its end copied a file of
\* origin iff the mirror copy was absent or older, at every depth and
\* whatever the mtimes of the directories.
C2_StalenessOnlyCopy ==
    (AfterPass /\ outcome = "completed") =>
        \A f \in OriginFiles :
            f \in copied <=> Stale(origin, mirrorBefore, f)

\* C5: after setTestFolder selected a folder, or ensureTestFolder loaded the
\* saved one, testDir of playwright.config.ts is the test folder's path with
\* forward slashes.
C5_TestDirFollowsMirror ==
    ( /\ lastOp \in {"setTestFolder", "ensureTestFolder"}
      /\ outcome \in {"selected", "loaded"} )
    => FieldValue(playwrightContent, "testDir") = Normalize(testFolder)

\* C6: when the copy of one file fails during a pass, every other file of
\* origin that was absent from or newer than its mirror copy (in
\* directories the pass enters) is still copied in that pass.
C6_FailureIsolation ==
    (AfterPass /\ outcome = "error") =>
        \A f \in OriginFiles \ {failedAt} :
            (Stale(origin, mirrorBefore, f) /\ DirsStale(origin, mirrorBefore, f))
                => f \in copied

\* C8: from a mirror with no file in it: the first pass copies every origin
\* file, the next one copies nothing, and after one origin file is saved (no
\* directory changed) the third pass copies that file and only it.
C8_ReSync ==
    ( /\ \A f \in Files : mirror0[f] = Absent
      /\ events # Other /\ Len(events) = 4
      /\ \A i \in 1..4 : events[i].failedAt = "none" )
    => /\ events[1].files = OriginFiles
       /\ events[2].files = {}
       /\ events[4].files = events[3].files

C11_NotConfigured ==
    [][ ( /\ pc = "syncOriginalFolder"
          /\ pc' = "mainMenu"
          /\ (originalFolderPath = Null \/ testFolder = Null) )
        => /\ lastOp' = "syncOriginalFolder"
           /\ outcome' = "notSet"
           /\ UNCHANGED <<origin, mirror, clock, savedExists, savedFolder,
                          copied, failedAt, mirrorBefore, events>> ]_vars

\* syncOriginalFolder() has returned unconfigured in a run that follows one
\* which made a test folder: the files are on disk, the paths are unset
C11_Witness ==
    /\ lastOp = "syncOriginalFolder"
    /\ outcome = "notSet"
    /\ testFolder = Null
    /\ mirror0 = AllAbsent
    /\ mirror["."] # Absent

\* C12: an upsert on a document in which checksRegex finds no checks object
\* reports that the checks object was not found and leaves the stored
\* document as it was, declaration and reference unwritten.
C12_NoChecksUnmodified ==
    (lastOp = "upsert" /\ ~HasChecks(prevContent))
        => /\ outcome = "noChecks"
           /\ configContent = prevContent
           /\ Present(configContent) = Present(prevContent)
           /\ Occurrences(configContent, RefLit) = Occurrences(prevContent, RefLit)

\* an upsert found no checks object in a document with no EmailAlertChannel
\* in it, so the declaration was prepended to the text in memory
C12_Witness ==
    /\ lastOp = "upsert"
    /\ outcome = "noChecks"
    /\ ~HasChecks(prevContent)
    /\ ~Includes(prevContent, "EmailAlertChannel")
    /\ Len(prevContent) > 0

\* C13: after ensureTestFolder, setTestFolder, removeTestFolder or
\* syncOriginalFolder the paths in memory agree with savedFolder.json: they
\* are the record's when there is one, and both unset when there is none.
C13_MemoryMatchesRecord ==
    lastOp \in {"ensureTestFolder", "setTestFolder", "removeTestFolder",
                "syncOriginalFolder"}
        => IF savedExists
           THEN /\ testFolder = savedFolder.folder
                /\ originalFolderPath = savedFolder.originalFolder
           ELSE /\ testFolder = Null
                /\ originalFolderPath = Null

====
